---- MODULE Spec2Model ----
(***************************************************************************)
(* Navigation core of the vts browser (vts-browser-lib/navigation.cpp).    *)
(*                                                                         *)
(* Doubles are modelled by integers: angles in whole degrees, lengths in   *)
(* whole navigation units.  A boost::optional<double> and a double that    *)
(* uses NaN for "unset" are modelled by a sequence of length at most one   *)
(* (<<>> is unset / NaN, <<v>> is the value v).                            *)
(***************************************************************************)
EXTENDS Integers, Sequences, FiniteSets, TLC

VARIABLES
    srsType,            \* mapConfig->navigationType(): type of the navigation SRS
    geographicNavMode,  \* options.geographicNavMode (configured mode)
    position,           \* mapConfig->position.position
    orientation,        \* mapConfig->position.orientation
    verticalExtent,     \* mapConfig->position.verticalExtent
    heightMode,         \* mapConfig->position.heightMode
    targetPoint,        \* navigation.targetPoint
    changeRotation,     \* navigation.changeRotation
    targetViewExtent,   \* navigation.targetViewExtent
    autoRotation,       \* navigation.autoRotation
    geographicMode,     \* navigation.geographicMode (resolved mode)
    type,               \* navigation.type
    panZQueue,          \* navigation.panZQueue
    lastPanZShift,      \* navigation.lastPanZShift
    traverseRoot,       \* renderer.traverseRoot (<<>> while null)
    travNodes,          \* the TraverseNode objects of the tile tree
    lastOp,             \* the entry point that returned last
    gestures,           \* number of gesture calls made so far
    request,            \* a HeightRequest processed on its own (<<>>: none)
    returned,           \* what request.process returned last
    cornerReturned,     \* what each corner's process returned last
    recalls,            \* process calls made on the request once determined
    mainPc,             \* the line of main.cpp the main thread stands at
    dataPc,             \* the line of DataThread::run the data thread is at
    stop,               \* DataThread::stop
    map,                \* DataThread::map ("null" or "map")
    mapAlive,           \* the MapFoundation of main is constructed
    calls               \* the calls the data thread made on its map

vars == <<srsType, geographicNavMode, position, orientation, verticalExtent,
          heightMode, targetPoint, changeRotation, targetViewExtent,
          autoRotation, geographicMode, type, panZQueue, lastPanZShift,
          traverseRoot, travNodes, lastOp, gestures, request, returned,
          cornerReturned, recalls, mainPc, dataPc, stop, map, mapAlive,
          calls>>

config == <<srsType, geographicNavMode>>
posVars == <<position, orientation, verticalExtent, heightMode>>
treeVars == <<traverseRoot, travNodes>>
\* the request processed on its own
probeVars == <<request, returned, cornerReturned, recalls>>
\* the DataThread object and the two threads of the host application
threadVars == <<mainPc, dataPc, stop, map, mapAlive, calls>>
hostVars == <<probeVars, threadVars>>
\* the MapImpl: map configuration, Position, Navigation and tile tree
mapVars == <<srsType, geographicNavMode, position, orientation,
             verticalExtent, heightMode, targetPoint, changeRotation,
             targetViewExtent, autoRotation, geographicMode, type, panZQueue,
             lastPanZShift, traverseRoot, travNodes, lastOp, gestures>>

-----------------------------------------------------------------------------
(* Bounds of the model *)

\* number of gesture calls in a run (ticks and tile loads are not counted)
MaxGestures == 2
\* largest |changeRotation| component a gesture may build up
MaxRot == 180
\* largest |targetPoint| coordinate a pan may build up in a projected SRS
MaxCoord == 600
\* largest targetViewExtent a zoom may build up
MaxExtent == 3200
\* process calls made on a request after it returned Valid or Invalid
MaxRecalls == 2
\* dataTick calls the data thread makes in a run
MaxDataTicks == 6

-----------------------------------------------------------------------------
(* Options and map configuration *)

positionViewExtentMin == 200
positionViewExtentMax == 1600
navigationLatitudeThreshold == 80
navigationSamplesPerViewExtent == 2
\* cameraInertiaPan = cameraInertiaPanNum / cameraInertiaPanDen
cameraInertiaPanNum == 1
cameraInertiaPanDen == 10
\* srs.periodicity of the projected navigation SRS: axis x, this period
Period == 1000
\* surrogate elevation of the terrain tile
TerrainSurrogate == 42
\* vtslibs::vts::GeomExtents invalid surrogate sentinel
InvalidSurrogate == -1000000

NaN == <<>>
None == <<>>
Some(v) == <<v>>

Abs(x) == IF x < 0 THEN -x ELSE x
Sgn(x) == IF x < 0 THEN -1 ELSE IF x > 0 THEN 1 ELSE 0
\* C++ double division narrowed to the integer grid: truncation toward zero
Quot(a, b) == Sgn(a) * Sgn(b) * (Abs(a) \div Abs(b))

-----------------------------------------------------------------------------
(* Math utilities (math.hpp of the library) *)

clamp(a, lo, hi) == IF a < lo THEN lo ELSE IF a > hi THEN hi ELSE a

\* modulo(a, m): the non-negative remainder
modulo(a, m) == a % m

normalizeAngle(a) == modulo(a, 360)

\* signed difference b - a of two angles, folded into [-180, 180]
angularDiff(a, b) ==
    LET c == b - a
    IN  IF c > 180 THEN c - 360 ELSE IF c < -180 THEN c + 360 ELSE c

angularDiff3(a, b) == << angularDiff(a[1], b[1]),
                         angularDiff(a[2], b[2]),
                         angularDiff(a[3], b[3]) >>

vadd(a, b) == << a[1] + b[1], a[2] + b[2], a[3] + b[3] >>
vsub(a, b) == << a[1] - b[1], a[2] - b[2], a[3] - b[3] >>
vec3to2(a) == << a[1], a[2] >>

\* length of a 2-vector on the integer grid (exact on the axes)
length2(a) == IF a[2] = 0 THEN Abs(a[1])
              ELSE IF a[1] = 0 THEN Abs(a[2])
              ELSE Abs(a[1]) + Abs(a[2])

\* interpolate(a, b, f) = a + (b - a) * f with f = num / den
interpolate(a, b, num, den) == a + Quot((b - a) * num, den)

\* cos and sin of a yaw that is a multiple of 90 degrees
cosDeg(a) == CASE normalizeAngle(a) = 0 -> 1
               [] normalizeAngle(a) = 90 -> 0
               [] normalizeAngle(a) = 180 -> -1
               [] normalizeAngle(a) = 270 -> 0

sinDeg(a) == CASE normalizeAngle(a) = 0 -> 0
               [] normalizeAngle(a) = 90 -> 1
               [] normalizeAngle(a) = 180 -> 0
               [] normalizeAngle(a) = 270 -> -1

\* upperLeftSubMatrix(rotationMatrix(2, a)) * v
rotateZ(a, v) == << cosDeg(a) * v[1] - sinDeg(a) * v[2],
                    sinDeg(a) * v[1] + cosDeg(a) * v[2],
                    v[3] >>

-----------------------------------------------------------------------------
(* Tile tree and reference frame *)

\* a tile id is <<lod, x, y>>; the reference frame has one bisection root
Root == <<0, 0, 0>>
TreeNodes == {Root}

\* extents <<llx, lly, urx, ury>> of the root division node, whose SRS is
\* the navigation SRS itself
RootExtents == IF srsType = "geographic" THEN <<-180, -90, 180, 90>>
               ELSE <<-500, -500, 500, 500>>

Pow2(n) == 2 ^ n

\* NodeInfo::extents of tile id: row y counts from the upper edge downwards
NodeExtents(id) ==
    LET w == (RootExtents[3] - RootExtents[1]) \div Pow2(id[1])
        h == (RootExtents[4] - RootExtents[2]) \div Pow2(id[1])
    IN  << RootExtents[1] + id[2] * w,
           RootExtents[4] - (id[3] + 1) * h,
           RootExtents[1] + (id[2] + 1) * w,
           RootExtents[4] - id[3] * h >>

\* NodeInfo::inside
inside(ext, p) == /\ ext[1] <= p[1] /\ p[1] <= ext[3]
                  /\ ext[2] <= p[2] /\ p[2] <= ext[4]

\* vtslibs::vts::children(id), in their order
children(id) == << <<id[1] + 1, 2 * id[2],     2 * id[3]>>,
                   <<id[1] + 1, 2 * id[2] + 1, 2 * id[3]>>,
                   <<id[1] + 1, 2 * id[2],     2 * id[3] + 1>>,
                   <<id[1] + 1, 2 * id[2] + 1, 2 * id[3] + 1>> >>

validSurrogate(v) == v # InvalidSurrogate

\* MapImpl::findInfoNavRoot: None stands for the thrown runtime_error
findInfoNavRoot(navPos) ==
    IF inside(NodeExtents(Root), navPos)
    THEN Some([ni |-> Root, sds |-> navPos])
    ELSE None

\* MapImpl::findInfoSdsSampled: None stands for the thrown runtime_error;
\* desire < 3 is samples * size / verticalExtent < 8
RECURSIVE findInfoSdsSampled(_, _, _)
findInfoSdsSampled(info, sdsPos, ve) ==
    LET ext == NodeExtents(info)
        size == ext[3] - ext[1]
        childs == children(info)
        hits == { i \in 1..4 : inside(NodeExtents(childs[i]), sdsPos) }
    IN  IF navigationSamplesPerViewExtent * size < 8 * ve
        THEN Some(info)
        ELSE IF hits = {} THEN None
        ELSE findInfoSdsSampled(
                 childs[CHOOSE i \in hits : \A j \in hits : i <= j],
                 sdsPos, ve)

\* MapImpl::traverse(trav, true): asks the loader for the node
traverse(nodes, t) == [nodes EXCEPT ![t].load = TRUE]

-----------------------------------------------------------------------------
(* HeightRequest *)

NewCornerRequest(id) == [nodeInfo |-> id, trav |-> None, result |-> None]

NewHeightRequest(navPos) ==
    [navPos |-> navPos, resetOffset |-> NaN, corners |-> <<>>,
     nodeInfo |-> None, sds |-> NaN, interpol |-> NaN, result |-> None]

\* the direct child of trav on the way to the corner's tile
CornerChildId(target, travId) ==
    LET lodDiff == target[1] - travId[1] - 1
    IN  << target[1] - lodDiff,
           target[2] \div Pow2(lodDiff),
           target[3] \div Pow2(lodDiff) >>

\* HeightRequest::CornerRequest::process; root is <<>> for process(nullptr);
\* descents counts the steps from trav to one of its childs in this call
RECURSIVE CornerProcess(_, _, _, _)
CornerProcess(c, root, nodes, descents) ==
    IF c.result # None
    THEN [validity |-> IF validSurrogate(c.result[1])
                       THEN "Valid" ELSE "Invalid",
          corner |-> c, nodes |-> nodes, descents |-> descents]
    ELSE IF c.trav = None /\ root = None
    THEN [validity |-> "Indeterminate", corner |-> c, nodes |-> nodes,
          descents |-> descents]
    ELSE
      LET t == IF c.trav = None THEN root[1] ELSE c.trav[1]
          c1 == [c EXCEPT !.trav = Some(t)]
      IN  CASE nodes[t].validity = "Invalid" ->
                 [validity |-> "Invalid", corner |-> c1, nodes |-> nodes,
                  descents |-> descents]
            [] nodes[t].validity = "Indeterminate" ->
                 [validity |-> "Indeterminate", corner |-> c1,
                  nodes |-> traverse(nodes, t), descents |-> descents]
            [] nodes[t].validity = "Valid" ->
                 IF t = c.nodeInfo \/ nodes[t].childs = {}
                 THEN CornerProcess(
                          [c1 EXCEPT !.result = Some(nodes[t].surrogateValue)],
                          None, nodes, descents)
                 ELSE IF CornerChildId(c.nodeInfo, t) \in nodes[t].childs
                 THEN CornerProcess(
                          [c1 EXCEPT !.trav = Some(CornerChildId(c.nodeInfo, t))],
                          root, nodes, descents + 1)
                 ELSE [validity |-> "Invalid", corner |-> c1, nodes |-> nodes,
                       descents |-> descents]

\* lines 144-170 of HeightRequest::process: interpol and the four corners
\* around the corner of tile id that is nearest to sds
PrepareCorners(req, sds, id) ==
    LET ext == NodeExtents(id)
        sizeX == ext[3] - ext[1]
        sizeY == ext[4] - ext[2]
        \* interpol as numerators over 2 * size
        ix == 2 * sds[1] - ext[1] - ext[3]
        iy == 2 * sds[2] - ext[2] - ext[4]
        \* cornerId.x-- on x = 0 wraps the unsigned index; -1 stands
        \* for the wrapped value, which no tile of the tree carries
        cx == IF ix < 0 THEN id[2] - 1 ELSE id[2]
        cy == IF iy < 0 THEN id[3] ELSE id[3] - 1
    IN  [req EXCEPT
            !.sds = Some(sds),
            !.nodeInfo = Some(id),
            !.interpol = Some(<< IF ix < 0 THEN ix + 2 * sizeX ELSE ix,
                                 2 * sizeX,
                                 IF iy < 0 THEN iy + 2 * sizeY ELSE iy,
                                 2 * sizeY >>),
            !.corners = [i \in 1..4 |->
                NewCornerRequest(<< id[1], cx + ((i - 1) % 2),
                                    cy + ((i - 1) \div 2) >>)]]

\* line 137: the sampled tile ni found (or the runtime_error caught)
LocateSampled(req, sds, ni) ==
    IF ni = None
    THEN [ok |-> FALSE, req |-> [req EXCEPT !.sds = Some(sds)]]
    ELSE CHOOSE out \in
             { [ok |-> TRUE, req |-> pc] :
                   pc \in { PrepareCorners(req, sds, ni[1]) } } : TRUE

\* lines 135-137: the navigation root nisds found (or the runtime_error
\* caught)
LocateRoot(req, nisds, ve) ==
    IF nisds = None
    THEN [ok |-> FALSE, req |-> req]
    ELSE CHOOSE out \in
             { LocateSampled(req, nisds[1].sds, ni) :
                   ni \in { findInfoSdsSampled(nisds[1].ni, nisds[1].sds,
                                               ve) } } : TRUE

\* lines 129-173 of HeightRequest::process: locate the sampled tile and
\* prepare the four corners; ok = FALSE stands for the caught runtime_error
LocateRequest(req, ve) ==
    CHOOSE out \in { LocateRoot(req, nisds, ve) :
                         nisds \in { findInfoNavRoot(req.navPos) } } : TRUE

\* lines 175-193: the corners in order; an Invalid corner ends the loop;
\* returns lists what it.process returned for the corners that were called
RECURSIVE ProcessCorners(_, _, _, _, _)
\* the loop that gives up at the first corner that is not Valid
CornerDoneFirstUndetermined(i, corners, root, r, determined) ==
    IF r.validity # "Valid"
    THEN [validity |-> r.validity,
          corners |-> [corners EXCEPT ![i] = r.corner], nodes |-> r.nodes,
          returns |-> <<r.validity>>]
    ELSE CHOOSE out \in
             { [rest EXCEPT !.returns = <<r.validity>> \o @] :
                   rest \in { ProcessCorners(i + 1,
                                  [corners EXCEPT ![i] = r.corner], root,
                                  r.nodes, determined) } } : TRUE

\* lines 180-189: the outcome r of corner i taken into the loop
CornerDone(i, corners, root, r, determined) ==
    IF r.validity = "Invalid"
    THEN [validity |-> "Invalid",
          corners |-> [corners EXCEPT ![i] = r.corner], nodes |-> r.nodes,
          returns |-> <<r.validity>>]
    ELSE CHOOSE out \in
             { [rest EXCEPT !.returns = <<r.validity>> \o @] :
                   rest \in { ProcessCorners(i + 1,
                                  [corners EXCEPT ![i] = r.corner], root,
                                  r.nodes,
                                  determined /\ r.validity = "Valid") } } : TRUE

ProcessCorners(i, corners, root, nodes, determined) ==
    IF i > Len(corners)
    THEN [validity |-> IF determined THEN "Valid" ELSE "Indeterminate",
          corners |-> corners, nodes |-> nodes, returns |-> <<>>]
    ELSE CHOOSE out \in
             { CornerDone(i, corners, root, r, determined) :
                   r \in { CornerProcess(corners[i], root, nodes, 0) } } : TRUE

\* lines 195-205: bilinear interpolation of the four corner surrogates
RequestHeight(req) ==
    LET ip == req.interpol[1]
        res(i) == req.corners[i].result[1]
    IN  interpolate(
            interpolate(res(3), res(4), ip[1], ip[2]),
            interpolate(res(1), res(2), ip[1], ip[2]),
            ip[3], ip[4])

\* lines 175-206 of HeightRequest::process, pc being the corners' outcome
CombineCorners(req, pc) ==
    IF pc.validity = "Valid"
    THEN [validity |-> "Valid",
          req |-> [req EXCEPT
                      !.corners = pc.corners,
                      !.result = Some(RequestHeight(
                                     [req EXCEPT !.corners = pc.corners]))],
          nodes |-> pc.nodes, returns |-> pc.returns]
    ELSE [validity |-> pc.validity,
          req |-> [req EXCEPT !.corners = pc.corners],
          nodes |-> pc.nodes, returns |-> pc.returns]

\* a request that cannot be served while the traversal root is absent
ProcessLocatedNeedsRoot(loc, root, nodes) ==
    IF ~loc.ok \/ root = None
    THEN [validity |-> "Invalid", req |-> loc.req, nodes |-> nodes,
          returns |-> <<>>]
    ELSE CHOOSE out \in
             { CombineCorners(loc.req, pc) :
                   pc \in { ProcessCorners(1, loc.req.corners, root, nodes,
                                           TRUE) } } : TRUE

\* lines 129-206 of HeightRequest::process, loc being the located request
ProcessLocated(loc, root, nodes) ==
    IF ~loc.ok
    THEN [validity |-> "Invalid", req |-> loc.req, nodes |-> nodes,
          returns |-> <<>>]
    ELSE CHOOSE out \in
             { CombineCorners(loc.req, pc) :
                   pc \in { ProcessCorners(1, loc.req.corners, root, nodes,
                                           TRUE) } } : TRUE

\* HeightRequest::process
HeightProcess(req, root, nodes, ve) ==
    IF req.result # None
    THEN [validity |-> "Valid", req |-> req, nodes |-> nodes,
          returns |-> <<>>]
    ELSE CHOOSE out \in
             { ProcessLocated(loc, root, nodes) :
                   loc \in { IF req.corners = <<>> THEN LocateRequest(req, ve)
                             ELSE [ok |-> TRUE, req |-> req] } } : TRUE

-----------------------------------------------------------------------------
(* Geodesy of the coordinate convertor (CoordManip) on the degree grid *)

\* std::cos(lat * 3.14159 / 180) in thousandths, for lat = 0 .. 90
cosTable == <<
    1000, 1000, 999, 999, 998, 996, 995, 993, 990, 988, 985, 982, 978,
    974, 970, 966, 961, 956, 951, 946, 940, 934, 927, 921, 914, 906,
    899, 891, 883, 875, 866, 857, 848, 839, 829, 819, 809, 799, 788,
    777, 766, 755, 743, 731, 719, 707, 695, 682, 669, 656, 643, 629,
    616, 602, 588, 574, 559, 545, 530, 515, 500, 485, 469, 454, 438,
    423, 407, 391, 375, 358, 342, 326, 309, 292, 276, 259, 242, 225,
    208, 191, 174, 156, 139, 122, 105, 87, 70, 52, 35, 17, 0 >>

cosPermille(lat) == cosTable[clamp(Abs(lat), 0, 90) + 1]

validLat(lat) == -90 <= lat /\ lat <= 90

\* longitude folded into [-180, 180)
wrapLon(lon) == modulo(lon + 180, 360) - 180

\* a point pushed over a pole comes back down on the opposite meridian
geoNormalize(lon, lat) ==
    IF lat > 90 THEN << wrapLon(lon + 180), 180 - lat >>
    ELSE IF lat < -90 THEN << wrapLon(lon + 180), -180 - lat >>
    ELSE << wrapLon(lon), lat >>

\* geoInverse(a, b, dist, azi1, azi2): dist is NaN (<<>>) when a latitude
\* is outside [-90, 90]; 0 exactly when a and b are the same place
geoInverseDist(a, b) ==
    IF ~validLat(a[2]) \/ ~validLat(b[2]) THEN NaN
    ELSE Some(length2(<< angularDiff(wrapLon(a[1]), wrapLon(b[1])),
                         b[2] - a[2] >>))

\* azi2 - azi1 of geoInverse: the turn of the heading along the geodesic,
\* none along a meridian or the equator
geoInverseTurn(a, b) ==
    LET dl == angularDiff(wrapLon(a[1]), wrapLon(b[1]))
    IN  IF dl = 0 \/ (a[2] = 0 /\ b[2] = 0) THEN 0
        ELSE IF dl > 0 THEN 90 ELSE -90

\* geoDirect(p, dist, azi) for a move <<east, north>> of length dist at
\* azimuth azi; NaN (<<>>) when the latitude of p is outside [-90, 90]
geoDirect(p, move) ==
    IF ~validLat(p[2]) THEN NaN
    ELSE LET q == geoNormalize(p[1] + move[1], p[2] + move[2])
         IN  Some(<< q[1], q[2], p[3] >>)

\* geoDirect(p, horizontal2, azi1, azi2) along the geodesic from p to t,
\* of which horizontal2 / horizontal1 is travelled
geoDirectToward(p, t, horizontal2, horizontal1) ==
    LET q == geoNormalize(
                 p[1] + Quot(angularDiff(wrapLon(p[1]), wrapLon(t[1]))
                             * horizontal2, horizontal1),
                 p[2] + Quot((t[2] - p[2]) * horizontal2, horizontal1))
    IN  << q[1], q[2], p[3] >>

\* geoArcDist(a, b) in degrees of arc; NaN (<<>>) for an invalid latitude
geoArcDist(a, b) ==
    IF ~validLat(a[2]) \/ ~validLat(b[2]) THEN NaN
    ELSE LET dl == Abs(angularDiff(wrapLon(a[1]), wrapLon(b[1])))
             dp == Abs(b[2] - a[2])
             c == IF cosPermille(a[2]) < cosPermille(b[2])
                  THEN cosPermille(a[2]) ELSE cosPermille(b[2])
         IN  Some(clamp(dp + Quot(dl * c, 1000), 0, 180))

-----------------------------------------------------------------------------
(* Motion solver (navigationSolver.hpp) *)

\* what is left of a residual x under inertia num / den is consumed later
Approach(x, num, den) == x - Quot(x * num, den)

\* navigationSolve: Instant consumes every residual at once; Quick and
\* FlyOver close the horizontal and vertical distance by 1 - cameraInertiaPan
\* (cameraInertiaRotate = cameraInertiaZoom = 0)
navigationSolve(navType, horizontal1, vertical1, viewExtent, viewExtentDelta, r, cr) ==
    LET quick == navType # "Instant"
        step(x) == IF quick
                   THEN Approach(x, cameraInertiaPanNum, cameraInertiaPanDen)
                   ELSE x
    IN  [viewExtent |-> viewExtent + viewExtentDelta,
         horizontal2 |-> IF horizontal1 = NaN THEN NaN
                         ELSE Some(step(horizontal1[1])),
         vertical2 |-> step(vertical1),
         r2 |-> vadd(r, cr)]

-----------------------------------------------------------------------------
(* Navigation: height queue *)

\* the resolved height applied for a reset only, never as a shift
ApplyHeightNoShift(task, nh, tp, last) ==
    IF task.resetOffset # NaN
    THEN [tp EXCEPT ![3] = nh + task.resetOffset[1]]
    ELSE tp

\* the resolved height applied as a shift only, the reset offset ignored
ApplyHeightRelative(task, nh, tp, last) ==
    IF last # None
    THEN [tp EXCEPT ![3] = @ + nh - last[1]]
    ELSE tp

\* lines 229-235 of MapImpl::checkPanZQueue: apply the height nh of the
\* resolved request task to the camera target
ApplyHeight(task, nh, tp, last) ==
    IF task.resetOffset # NaN
    THEN [tp EXCEPT ![3] = nh + task.resetOffset[1]]
    ELSE IF last # None
    THEN [tp EXCEPT ![3] = @ + nh - last[1]]
    ELSE tp

\* the queue handling that keeps a request that cannot be served
HeightProcessedKeepInvalid(queue, tp, last, r) ==
    CASE r.validity \in {"Indeterminate", "Invalid"} ->
           [queue |-> <<r.req>> \o Tail(queue), targetPoint |-> tp,
            last |-> last, nodes |-> r.nodes, validity |-> r.validity]
      [] r.validity = "Valid" ->
           [queue |-> Tail(queue),
            targetPoint |-> ApplyHeight(r.req, r.req.result[1], tp, last),
            last |-> Some(r.req.result[1]),
            nodes |-> r.nodes, validity |-> r.validity]

\* the queue handling that gives up a request whose tiles are not there yet
HeightProcessedGiveUp(queue, tp, last, r) ==
    CASE r.validity \in {"Indeterminate", "Invalid"} ->
           [queue |-> Tail(queue), targetPoint |-> tp,
            last |-> last, nodes |-> r.nodes, validity |-> r.validity]
      [] r.validity = "Valid" ->
           [queue |-> Tail(queue),
            targetPoint |-> ApplyHeight(r.req, r.req.result[1], tp, last),
            last |-> Some(r.req.result[1]),
            nodes |-> r.nodes, validity |-> r.validity]

\* lines 217-236 of MapImpl::checkPanZQueue, r being the outcome of
\* task.process
HeightProcessed(queue, tp, last, r) ==
    CASE r.validity = "Indeterminate" ->
           [queue |-> <<r.req>> \o Tail(queue), targetPoint |-> tp,
            last |-> last, nodes |-> r.nodes, validity |-> r.validity]
      [] r.validity = "Invalid" ->
           [queue |-> Tail(queue), targetPoint |-> tp,
            last |-> last, nodes |-> r.nodes, validity |-> r.validity]
      [] r.validity = "Valid" ->
           [queue |-> Tail(queue),
            targetPoint |-> ApplyHeight(r.req, r.req.result[1], tp, last),
            last |-> Some(r.req.result[1]),
            nodes |-> r.nodes, validity |-> r.validity]

\* MapImpl::checkPanZQueue
checkPanZQueue(queue, tp, last, root, nodes, ve) ==
    IF queue = <<>>
    THEN [queue |-> queue, targetPoint |-> tp, last |-> last,
          nodes |-> nodes, validity |-> "none"]
    ELSE CHOOSE out \in
             { HeightProcessed(queue, tp, last, r) :
                   r \in { HeightProcess(Head(queue), root, nodes, ve) } } : TRUE

\* MapImpl::resetPositionAltitude, as a function of the state it touches
resetAltitude(resetOffset, tp, pos) ==
    [targetPoint |-> [tp EXCEPT ![3] = 0],
     last |-> None,
     queue |-> << [NewHeightRequest(vec3to2(pos))
                      EXCEPT !.resetOffset = Some(resetOffset)] >>]

\* the enqueue step that replaces the head of a full queue
EnqueueReplaceFront(queue, h) ==
    IF Len(queue) < 2
    THEN Append(queue, h)
    ELSE [queue EXCEPT ![1] = h]

\* the enqueue step without the replacement of the tail
EnqueueAlwaysPush(queue, h) == Append(queue, h)

\* the enqueue step that only ever replaces the tail of a queue that has one
EnqueueTailOnly(queue, h) ==
    IF queue = <<>>
    THEN queue
    ELSE [queue EXCEPT ![Len(queue)] = h]

\* lines 594-601 of MapImpl::updateNavigation: vertical camera adjustment
EnqueueHeightRequest(queue, h) ==
    IF Len(queue) < 2
    THEN Append(queue, h)
    ELSE [queue EXCEPT ![Len(queue)] = h]

-----------------------------------------------------------------------------
(* Navigation: the tick *)

\* the dynamic mode resolved afresh in every tick: azimuthal below the
\* threshold
ResolveGeographicModeReset(tp) ==
    IF srsType = "geographic"
    THEN IF geographicNavMode = "Dynamic"
         THEN IF Abs(tp[2]) * 100000 > navigationLatitudeThreshold * 100000 - 1
              THEN "Free"
              ELSE "Azimuthal"
         ELSE geographicNavMode
    ELSE geographicMode

\* the dynamic mode switched to free whatever the latitude of the target
ResolveGeographicModeFree(tp) ==
    IF srsType = "geographic"
    THEN IF geographicNavMode = "Dynamic" THEN "Free" ELSE geographicNavMode
    ELSE geographicMode

\* lines 441-452: resolved geographic mode
ResolveGeographicMode(tp) ==
    IF srsType = "geographic"
    THEN IF geographicNavMode = "Dynamic"
         THEN IF Abs(tp[2]) * 100000 > navigationLatitudeThreshold * 100000 - 1
              THEN "Free"
              ELSE geographicMode
         ELSE geographicNavMode
    ELSE geographicMode

\* the latitude limited to the poles only
LimitLatitudePole(tp, gm) ==
    IF srsType = "geographic" /\ gm = "Azimuthal"
    THEN [tp EXCEPT ![2] = clamp(@, -90, 90)]
    ELSE tp

\* lines 454-460: limit latitude in azimuthal navigation
LimitLatitude(tp, gm) ==
    IF srsType = "geographic" /\ gm = "Azimuthal"
    THEN [tp EXCEPT ![2] = clamp(@, -navigationLatitudeThreshold,
                                 navigationLatitudeThreshold)]
    ELSE tp

\* lines 471-483: horizontal distance to the target (NaN is <<>>)
HorizontalDistance(p, tp) ==
    IF srsType = "projected"
    THEN Some(length2(<< tp[1] - p[1], tp[2] - p[2] >>))
    ELSE geoInverseDist(p, tp)

\* the projected move taken the other way round the period
HorizontalMoveRoundPeriod(p, tp, gm, horizontal1, horizontal2) ==
    IF horizontal1 = NaN \/ horizontal1[1] <= 0
    THEN [p |-> p, yaw |-> 0, fatal |-> FALSE]
    ELSE
      LET h1 == horizontal1[1]
          h2 == horizontal2[1]
      IN  CASE srsType = "projected" ->
                 [p |-> << p[1] + Quot((tp[1] - p[1]
                                          - Sgn(tp[1] - p[1]) * Period) * h2,
                                       h1),
                           p[2] + Quot((tp[2] - p[2]) * h2, h1),
                           p[3] + Quot((tp[3] - p[3]) * h2, h1) >>,
                  yaw |-> 0, fatal |-> FALSE]
            [] srsType = "geographic" /\ gm = "Free" ->
                 [p |-> geoDirectToward(p, tp, h2, h1),
                  yaw |-> geoInverseTurn(p, tp), fatal |-> FALSE]
            [] srsType = "geographic" /\ gm = "Azimuthal" ->
                 [p |-> << p[1] + Quot(angularDiff(p[1], tp[1]) * h2, h1),
                           p[2] + Quot(angularDiff(p[2], tp[2]) * h2, h1),
                           p[3] >>,
                  yaw |-> 0, fatal |-> FALSE]
            [] OTHER -> [p |-> p, yaw |-> 0, fatal |-> TRUE]

\* lines 511-540: horizontal move; yields the moved p and the yaw change
HorizontalMove(p, tp, gm, horizontal1, horizontal2) ==
    IF horizontal1 = NaN \/ horizontal1[1] <= 0
    THEN [p |-> p, yaw |-> 0, fatal |-> FALSE]
    ELSE
      LET h1 == horizontal1[1]
          h2 == horizontal2[1]
      IN  CASE srsType = "projected" ->
                 [p |-> << p[1] + Quot((tp[1] - p[1]) * h2, h1),
                           p[2] + Quot((tp[2] - p[2]) * h2, h1),
                           p[3] + Quot((tp[3] - p[3]) * h2, h1) >>,
                  yaw |-> 0, fatal |-> FALSE]
            [] srsType = "geographic" /\ gm = "Free" ->
                 [p |-> geoDirectToward(p, tp, h2, h1),
                  yaw |-> geoInverseTurn(p, tp), fatal |-> FALSE]
            [] srsType = "geographic" /\ gm = "Azimuthal" ->
                 [p |-> << p[1] + Quot(angularDiff(p[1], tp[1]) * h2, h1),
                           p[2] + Quot(angularDiff(p[2], tp[2]) * h2, h1),
                           p[3] >>,
                  yaw |-> 0, fatal |-> FALSE]
            [] OTHER -> [p |-> p, yaw |-> 0, fatal |-> TRUE]

\* the periodic coordinate wrapped with half the period
ApplyPeriodicityHalf(p) ==
    CASE srsType = "projected" ->
           [p EXCEPT ![1] = modulo(@ + Period \div 4, Period \div 2)
                               - Period \div 4]
      [] srsType = "geographic" ->
           [p EXCEPT ![1] = modulo(@ + 90, 180) - 90]

\* the periodic coordinate wrapped into [0, period) instead
ApplyPeriodicityPositive(p) ==
    CASE srsType = "projected" -> [p EXCEPT ![1] = modulo(@, Period)]
      [] srsType = "geographic" -> [p EXCEPT ![1] = modulo(@, 360)]

\* lines 542-575: the position wrapped by the periodicity of the SRS
ApplyPeriodicity(p) ==
    CASE srsType = "projected" ->
           [p EXCEPT ![1] = modulo(@ + Period \div 2, Period) - Period \div 2]
      [] srsType = "geographic" ->
           [p EXCEPT ![1] = modulo(@ + 180, 360) - 180]

\* the normalisation without the pitch clamp
NormalizeRotationNoClamp(r) ==
    << normalizeAngle(r[1]), normalizeAngle(r[2]), normalizeAngle(r[3]) >>

\* lines 579-582: normalize rotation
NormalizeRotation(r) ==
    << normalizeAngle(r[1]),
       clamp(normalizeAngle(r[2]), 270, 350),
       normalizeAngle(r[3]) >>

\* the floating position re-grounded with the pending requests kept
FloatingPositionKeepQueue(zq) ==
    IF heightMode = "floating"
    THEN [targetPoint |-> [zq.targetPoint EXCEPT ![3] = 0], last |-> None,
          queue |-> zq.queue]
    ELSE [targetPoint |-> zq.targetPoint, last |-> zq.last,
          queue |-> zq.queue]

\* the floating position re-grounded with no offset
FloatingPositionNoOffset(zq) ==
    IF heightMode = "floating"
    THEN resetAltitude(0, zq.targetPoint, position)
    ELSE [targetPoint |-> zq.targetPoint, last |-> zq.last,
          queue |-> zq.queue]

\* lines 428-433: floating position; zq is the state checkPanZQueue left
FloatingPosition(zq) ==
    IF heightMode = "floating"
    THEN resetAltitude(position[3], zq.targetPoint, position)
    ELSE [targetPoint |-> zq.targetPoint, last |-> zq.last,
          queue |-> zq.queue]

\* the zoom limit with the lower bound only
LimitZoomMinOnly(tve) ==
    IF tve < positionViewExtentMin THEN positionViewExtentMin ELSE tve

\* lines 436-439: limit zoom
LimitZoom(tve) ==
    clamp(tve, positionViewExtentMin, positionViewExtentMax)

\* MapImpl::updateNavigation (each \E binds one local of the function)
Tick ==
    \E zq \in { checkPanZQueue(panZQueue, targetPoint, lastPanZShift,
                               traverseRoot, travNodes, verticalExtent) } :
    \E rs \in { FloatingPosition(zq) } :
    \E tve \in { LimitZoom(targetViewExtent) } :
    \E gm \in { ResolveGeographicMode(rs.targetPoint) } :
    \E tp1 \in { LimitLatitude(rs.targetPoint, gm) } :
    \* auto rotation
    \E cr1 \in { [changeRotation EXCEPT ![1] = @ + autoRotation] } :
    IF srsType = "cartesian"
    THEN \* LOGTHROW(fatal) at line 482: nothing below it runs
         /\ panZQueue' = rs.queue
         /\ lastPanZShift' = rs.last
         /\ targetPoint' = rs.targetPoint
         /\ heightMode' = "fixed"
         /\ targetViewExtent' = tve
         /\ changeRotation' = cr1
         /\ travNodes' = zq.nodes
         /\ lastOp' = "tickFatal" /\ UNCHANGED gestures
         /\ UNCHANGED <<hostVars, config, position, orientation, verticalExtent,
                        autoRotation, geographicMode, type, traverseRoot>>
    ELSE
      \E horizontal1 \in { HorizontalDistance(position, tp1) } :
      \E s \in { navigationSolve(type, horizontal1, tp1[3] - position[3],
                                 verticalExtent, tve - verticalExtent,
                                 orientation, cr1) } :
      \* vertical move, then horizontal move
      \E hm \in { HorizontalMove([position EXCEPT ![3] = @ + s.vertical2],
                                 tp1, gm, horizontal1, s.horizontal2) } :
      \* apply periodicity
      \E p2 \in { ApplyPeriodicity(hm.p) } :
          IF hm.fatal
          THEN \* LOGTHROW(fatal) at line 535
               /\ panZQueue' = rs.queue
               /\ lastPanZShift' = rs.last
               /\ targetPoint' = tp1
               /\ heightMode' = "fixed"
               /\ targetViewExtent' = tve
               /\ geographicMode' = gm
               /\ changeRotation' = vsub(cr1, vsub(s.r2, orientation))
               /\ verticalExtent' = s.viewExtent
               /\ travNodes' = zq.nodes
               /\ lastOp' = "tickFatal" /\ UNCHANGED gestures
               /\ UNCHANGED <<hostVars, config, position, orientation, autoRotation,
                              type, traverseRoot>>
          ELSE /\ panZQueue' = EnqueueHeightRequest(rs.queue,
                                   NewHeightRequest(vec3to2(p2)))
               /\ lastPanZShift' = rs.last
               /\ targetPoint' = vadd(tp1, vsub(p2, hm.p))
               /\ heightMode' = "fixed"
               /\ targetViewExtent' = tve
               /\ geographicMode' = gm
               /\ changeRotation' = vsub(cr1, vsub(s.r2, orientation))
               /\ verticalExtent' = s.viewExtent
               /\ position' = p2
               /\ orientation' = NormalizeRotation(
                                     [s.r2 EXCEPT ![1] = @ + hm.yaw])
               /\ travNodes' = zq.nodes
               /\ lastOp' = "tick" /\ UNCHANGED gestures
               /\ UNCHANGED <<hostVars, config, autoRotation, type, traverseRoot>>

-----------------------------------------------------------------------------
(* Navigation: gesture entry points *)

\* options.navigationType, options.cameraSensitivity* = 1
optNavigationType == "Quick"

NavigationTypes == {"Instant", "Quick"}

PanValues == { <<100, 0, 0>>, <<-100, 0, 0>>, <<0, 0, 5>> }
RotateValues == { <<450, 0, 0>>, <<0, -900, 0>> }
\* zoom values c with pow(1.001, -c) = 1/2 and 2 (c = +-693.49...)
ZoomValues == { 693, -693 }
SetPointValues ==
    IF srsType = "geographic"
    THEN { <<150, 0, 0>>, <<0, 95, 0>> }
    ELSE { <<-400, 0, 100>>, <<600, 600, 100>> }
SetRotationValues == { <<90, 300, 180>> }
SetViewExtentValues == { 100, 5000 }
ResetOffsets == { 5 }

\* smallest targetViewExtent a zoom may build up
MinExtent == 100

\* a gesture call of the host, counted against MaxGestures
Gesture == gestures < MaxGestures /\ gestures' = gestures + 1

\* the move with the pan speed taken from the magnitude of value.x
PanMoveMagnitude(value) ==
    LET h == IF srsType = "geographic" /\ geographicMode = "Azimuthal"
             THEN cosPermille(position[2]) ELSE 1000
        move == << Quot(Abs(value[1]) * (-2) * verticalExtent * h, 800 * 1000),
                   Quot(value[2] * 2 * verticalExtent, 800),
                   value[3] * 2 >>
        azi == IF srsType = "geographic" /\ geographicMode = "Free"
               THEN orientation[1] + geoInverseTurn(position, targetPoint)
               ELSE orientation[1]
    IN  rotateZ(-azi, move)

\* lines 612-640 of MapImpl::pan: the move, rotated by the camera
PanMove(value) ==
    LET h == IF srsType = "geographic" /\ geographicMode = "Azimuthal"
             THEN cosPermille(position[2]) ELSE 1000
        move == << Quot(value[1] * (-2) * verticalExtent * h, 800 * 1000),
                   Quot(value[2] * 2 * verticalExtent, 800),
                   value[3] * 2 >>
        azi == IF srsType = "geographic" /\ geographicMode = "Free"
               THEN orientation[1] + geoInverseTurn(position, targetPoint)
               ELSE orientation[1]
    IN  rotateZ(-azi, move)

\* lines 650-654: the candidate target point of a geographic pan
PanCandidate(value) ==
    LET move == PanMove(value)
        c == geoDirect(targetPoint, << move[1], move[2] >>)
    IN  IF c = NaN THEN NaN
        ELSE Some([c[1] EXCEPT ![3] = @ + move[3]])

\* lines 656-668: the jump from the current position to the candidate
PanJump(cand) ==
    IF cand = NaN THEN NaN
    ELSE IF geographicMode = "Azimuthal"
    THEN Some(Abs(angularDiff(position[1], cand[1][1])))
    ELSE geoArcDist(position, cand[1])

\* the pan taken up to and including a jump of 150
PanAcceptedInclusive(jump) == jump # NaN /\ jump[1] <= 150

\* lines 659 and 663: the pan is taken when the jump is small enough
PanAccepted(jump) == jump # NaN /\ jump[1] < 150

\* MapImpl::pan
Pan(value) ==
    CASE srsType = "projected" ->
           /\ targetPoint' = vadd(targetPoint, PanMove(value))
           /\ \A i \in 1..3 : Abs(targetPoint'[i]) <= MaxCoord
           /\ autoRotation' = 0
           /\ type' = optNavigationType
           /\ lastOp' = "pan" /\ Gesture
           /\ UNCHANGED <<hostVars, config, posVars, changeRotation, targetViewExtent,
                          geographicMode, panZQueue, lastPanZShift, treeVars>>
      [] srsType = "geographic" /\ geographicMode # "Dynamic" ->
           /\ targetPoint' = IF PanAccepted(PanJump(PanCandidate(value)))
                             THEN PanCandidate(value)[1]
                             ELSE targetPoint
           /\ Abs(targetPoint'[3]) <= MaxCoord
           /\ autoRotation' = 0
           /\ type' = optNavigationType
           /\ lastOp' = "pan" /\ Gesture
           /\ UNCHANGED <<hostVars, config, posVars, changeRotation, targetViewExtent,
                          geographicMode, panZQueue, lastPanZShift, treeVars>>
      [] OTHER ->
           \* LOGTHROW(fatal) at line 667 or 671
           /\ lastOp' = "panFatal" /\ Gesture
           /\ UNCHANGED <<hostVars, config, posVars, targetPoint, changeRotation,
                          targetViewExtent, autoRotation, geographicMode,
                          type, panZQueue, lastPanZShift, treeVars>>

\* MapImpl::rotate
Rotate(value) ==
    /\ changeRotation' = vadd(changeRotation,
                              << Quot(value[1] * 2, 10),
                                 Quot(-value[2], 10),
                                 Quot(value[3] * 2, 10) >>)
    /\ \A i \in 1..3 : Abs(changeRotation'[i]) <= MaxRot
    /\ geographicMode' = IF geographicNavMode = "Dynamic"
                         THEN "Free" ELSE geographicMode
    /\ autoRotation' = 0
    /\ type' = optNavigationType
    /\ lastOp' = "rotate" /\ Gesture
    /\ UNCHANGED <<hostVars, config, posVars, targetPoint, targetViewExtent,
                   panZQueue, lastPanZShift, treeVars>>

\* pow(1.001, -c) as a ratio <<num, den>>
Pow1001(c) == IF c > 0 THEN <<1, 2>> ELSE IF c < 0 THEN <<2, 1>> ELSE <<1, 1>>

\* MapImpl::zoom
Zoom(value) ==
    /\ targetViewExtent' = Quot(targetViewExtent * Pow1001(value)[1],
                                Pow1001(value)[2])
    /\ targetViewExtent' <= MaxExtent
    /\ targetViewExtent' >= MinExtent
    /\ autoRotation' = 0
    /\ type' = optNavigationType
    /\ lastOp' = "zoom" /\ Gesture
    /\ UNCHANGED <<hostVars, config, posVars, targetPoint, changeRotation,
                   geographicMode, panZQueue, lastPanZShift, treeVars>>

\* setPoint that forgets to drop the pending height requests
SetPointKeepQueue(point, navType) ==
    /\ targetPoint' = point
    /\ autoRotation' = 0
    /\ type' = navType
    /\ lastOp' = "setPoint" /\ Gesture
    /\ UNCHANGED <<hostVars, config, posVars, changeRotation, targetViewExtent,
                   geographicMode, treeVars, lastPanZShift, panZQueue>>

\* MapImpl::setPoint
SetPoint(point, navType) ==
    /\ targetPoint' = point
    /\ autoRotation' = 0
    /\ type' = navType
    /\ IF navType = "Instant"
       THEN /\ lastPanZShift' = None
            /\ panZQueue' = <<>>
       ELSE UNCHANGED <<lastPanZShift, panZQueue>>
    /\ lastOp' = "setPoint" /\ Gesture
    /\ UNCHANGED <<hostVars, config, posVars, changeRotation, targetViewExtent,
                   geographicMode, treeVars>>

\* MapImpl::setRotation
SetRotation(euler, navType) ==
    /\ changeRotation' = angularDiff3(orientation, euler)
    /\ autoRotation' = 0
    /\ type' = navType
    /\ lastOp' = "setRotation" /\ Gesture
    /\ UNCHANGED <<hostVars, config, posVars, targetPoint, targetViewExtent,
                   geographicMode, panZQueue, lastPanZShift, treeVars>>

\* setViewExtent that writes an Instant extent straight into the position
SetViewExtentDirect(viewExtent, navType) ==
    /\ targetViewExtent' = viewExtent
    /\ verticalExtent' = IF navType = "Instant" THEN viewExtent
                         ELSE verticalExtent
    /\ autoRotation' = 0
    /\ type' = navType
    /\ lastOp' = "setViewExtent" /\ Gesture
    /\ UNCHANGED <<hostVars, config, position, orientation, heightMode, targetPoint,
                   changeRotation, geographicMode, panZQueue, lastPanZShift,
                   treeVars>>

\* MapImpl::setViewExtent
SetViewExtent(viewExtent, navType) ==
    /\ targetViewExtent' = viewExtent
    /\ autoRotation' = 0
    /\ type' = navType
    /\ lastOp' = "setViewExtent" /\ Gesture
    /\ UNCHANGED <<hostVars, config, posVars, targetPoint, changeRotation,
                   geographicMode, panZQueue, lastPanZShift, treeVars>>

\* MapImpl::resetPositionAltitude
ResetPositionAltitude(resetOffset) ==
    LET rs == resetAltitude(resetOffset, targetPoint, position)
    IN  /\ targetPoint' = rs.targetPoint
        /\ lastPanZShift' = rs.last
        /\ panZQueue' = rs.queue
        /\ lastOp' = "resetPositionAltitude" /\ Gesture
        /\ UNCHANGED <<hostVars, config, posVars, changeRotation, targetViewExtent,
                       autoRotation, geographicMode, type, treeVars>>

\* the reset that takes the configured mode as it is
ResetNavigationGeographicModeConfigured ==
    /\ geographicMode' = geographicNavMode
    /\ lastOp' = "resetNavigationGeographicMode" /\ Gesture
    /\ UNCHANGED <<hostVars, config, posVars, targetPoint, changeRotation,
                   targetViewExtent, autoRotation, type, panZQueue,
                   lastPanZShift, treeVars>>

\* MapImpl::resetNavigationGeographicMode
ResetNavigationGeographicMode ==
    /\ geographicMode' = IF geographicNavMode = "Dynamic"
                         THEN "Azimuthal" ELSE geographicNavMode
    /\ lastOp' = "resetNavigationGeographicMode" /\ Gesture
    /\ UNCHANGED <<hostVars, config, posVars, targetPoint, changeRotation,
                   targetViewExtent, autoRotation, type, panZQueue,
                   lastPanZShift, treeVars>>

-----------------------------------------------------------------------------
(* The tile tree as the renderer and the loader change it *)

NewTraverseNode == [validity |-> "Indeterminate", childs |-> {},
                    surrogateValue |-> InvalidSurrogate, load |-> FALSE]

\* the renderer creates the root of the traversal
CreateRoot ==
    /\ traverseRoot = None
    /\ traverseRoot' = Some(Root)
    /\ lastOp' = "createRoot" /\ UNCHANGED gestures
    /\ UNCHANGED <<hostVars, config, posVars, targetPoint, changeRotation,
                   targetViewExtent, autoRotation, geographicMode, type,
                   panZQueue, lastPanZShift, travNodes>>

\* the surrogate of tile n: the terrain rises to the east and to the south
TileSurrogate(n) == TerrainSurrogate + 100 * n[2] + 200 * n[3]

\* the loader determines a requested node; a Valid one carries its surrogate
\* and the childs the tile tree has for it
LoadNode(n, validity) ==
    /\ traverseRoot # None
    /\ travNodes[n].validity = "Indeterminate"
    /\ travNodes[n].load
    /\ travNodes' = [travNodes EXCEPT
                        ![n].validity = validity,
                        ![n].surrogateValue =
                            IF validity = "Valid" THEN TileSurrogate(n) ELSE @,
                        ![n].childs =
                            IF validity = "Valid"
                            THEN { children(n)[i] : i \in 1..4 }
                                     \cap DOMAIN travNodes
                            ELSE @]
    /\ lastOp' = "loadNode" /\ UNCHANGED gestures
    /\ UNCHANGED <<hostVars, config, posVars, targetPoint, changeRotation,
                   targetViewExtent, autoRotation, geographicMode, type,
                   panZQueue, lastPanZShift, traverseRoot>>

-----------------------------------------------------------------------------
(* A HeightRequest processed on its own *)

\* the points the request is made for: the centre of the root tile, points
\* whose first or second corner tile lies beyond the west or the east edge,
\* a point outside the root
ProbePoints == { <<0, 0>>, <<-400, 0>>, <<400, 0>>, <<600, 600>> }

NotCalled == [i \in 1..4 |-> "none"]

\* no request is processed on its own
NoProbe ==
    /\ request = None /\ returned = "none"
    /\ cornerReturned = NotCalled /\ recalls = 0

\* what every corner's process returned last, returns being the values of
\* the corners that were called in this call
CornerReturns(old, returns) ==
    [i \in 1..4 |-> IF i <= Len(returns) THEN returns[i] ELSE old[i]]

\* request.process(map), called by the holder of the request
Process ==
    /\ request # None
    /\ returned \in {"Valid", "Invalid"} => recalls < MaxRecalls
    /\ \E out \in { HeightProcess(request, traverseRoot, travNodes,
                                   verticalExtent) } :
          /\ request' = out.req
          /\ travNodes' = out.nodes
          /\ returned' = out.validity
          /\ cornerReturned' = CornerReturns(cornerReturned, out.returns)
    /\ recalls' = IF returned \in {"Valid", "Invalid"}
                  THEN recalls + 1 ELSE recalls
    /\ lastOp' = "process" /\ UNCHANGED gestures
    /\ UNCHANGED <<threadVars, config, posVars, targetPoint, changeRotation,
                   targetViewExtent, autoRotation, geographicMode, type,
                   panZQueue, lastPanZShift, traverseRoot>>

-----------------------------------------------------------------------------
(* The host application: main and the data thread (melown-glfw) *)

\* a call of the data thread on its map pointer: the pointer it went
\* through and whether the MapFoundation of main was constructed
Call(method) == [method |-> method, on |-> map, alive |-> mapAlive]

\* the host while the map runs: main is in main.run(), the data thread in
\* its loop
HostRunning ==
    /\ mainPc = "main50" /\ dataPc = "run43"
    /\ stop = FALSE /\ map = "map" /\ mapAlive = TRUE
    /\ calls = << [method |-> "dataInitialize", on |-> "map",
                   alive |-> TRUE] >>

\* main.cpp lines 43-45: the MapFoundation and the MainWindow
MainConstruct ==
    /\ mainPc = "main43"
    /\ mapAlive' = TRUE
    /\ mainPc' = "main46"
    /\ UNCHANGED <<mapVars, probeVars, dataPc, stop, map, calls>>

\* DataThread::DataThread (main.cpp line 46): the thread starts
DataThreadConstruct ==
    /\ mainPc = "main46"
    /\ map' = "null" /\ stop' = FALSE
    /\ dataPc' = "run36"
    /\ mainPc' = "main47"
    /\ UNCHANGED <<mapVars, probeVars, mapAlive, calls>>

\* main.cpp line 47: main.map = &map
MainWindowMap ==
    /\ mainPc = "main47"
    /\ mainPc' = "main48"
    /\ UNCHANGED <<mapVars, probeVars, dataPc, stop, map, mapAlive, calls>>

\* main.cpp line 48: data.map = &map
MainAssignMap ==
    /\ mainPc = "main48"
    /\ map' = "map"
    /\ mainPc' = "main50"
    /\ UNCHANGED <<mapVars, probeVars, dataPc, stop, mapAlive, calls>>

\* main.cpp lines 49-50: main.run() returns
MainRun ==
    /\ mainPc = "main50"
    /\ mainPc' = "dtor28"
    /\ UNCHANGED <<mapVars, probeVars, dataPc, stop, map, mapAlive, calls>>

\* DataThread::~DataThread line 28
DataThreadStop ==
    /\ mainPc = "dtor28"
    /\ stop' = TRUE
    /\ mainPc' = "dtor29"
    /\ UNCHANGED <<mapVars, probeVars, dataPc, map, mapAlive, calls>>

\* DataThread::~DataThread lines 29-31: thr.join() returns once the data
\* thread has left run
DataThreadJoin ==
    /\ mainPc = "dtor29"
    /\ dataPc = "done"
    /\ mainPc' = "main51"
    /\ UNCHANGED <<mapVars, probeVars, dataPc, stop, map, mapAlive, calls>>

\* main.cpp line 51: the MainWindow and then the MapFoundation are destroyed
MainDestroy ==
    /\ mainPc = "main51"
    /\ mapAlive' = FALSE
    /\ mainPc' = "main53"
    /\ UNCHANGED <<mapVars, probeVars, dataPc, stop, map, calls>>

\* DataThread::run lines 36-37
RunStart ==
    /\ dataPc = "run36"
    /\ dataPc' = "run38"
    /\ UNCHANGED <<mapVars, probeVars, mainPc, stop, map, mapAlive, calls>>

\* line 38, !stop: the read of stop
RunWaitStop ==
    /\ dataPc = "run38"
    /\ dataPc' = IF stop THEN "run41" ELSE "run38map"
    /\ UNCHANGED <<mapVars, probeVars, mainPc, stop, map, mapAlive, calls>>

\* the wait that goes on without a map
RunWaitMapIgnored ==
    /\ dataPc = "run38map"
    /\ dataPc' = "run41"
    /\ UNCHANGED <<mapVars, probeVars, mainPc, stop, map, mapAlive, calls>>

\* line 38, !map: the read of map
RunWaitMap ==
    /\ dataPc = "run38map"
    /\ dataPc' = IF map # "null" THEN "run41" ELSE "run39"
    /\ UNCHANGED <<mapVars, probeVars, mainPc, stop, map, mapAlive, calls>>

\* line 39: usleep(1000)
RunWaitSleep ==
    /\ dataPc = "run39"
    /\ dataPc' = "run38"
    /\ UNCHANGED <<mapVars, probeVars, mainPc, stop, map, mapAlive, calls>>

\* lines 40-42: map->dataInitialize(nullptr); through a null pointer the
\* call is undefined and the thread is taken to have crashed
RunInitialize ==
    /\ dataPc = "run41"
    /\ calls' = Append(calls, Call("dataInitialize"))
    /\ dataPc' = IF map = "null" THEN "crashed" ELSE "run43"
    /\ UNCHANGED <<mapVars, probeVars, mainPc, stop, map, mapAlive>>

\* line 43, !stop: the read of stop
RunLoopStop ==
    /\ dataPc = "run43"
    /\ dataPc' = IF stop THEN "run48" ELSE "run45"
    /\ UNCHANGED <<mapVars, probeVars, mainPc, stop, map, mapAlive, calls>>

\* line 45: map->dataTick(), which returns either value
RunTick ==
    /\ dataPc = "run45"
    /\ Len(calls) <= MaxDataTicks
    /\ calls' = Append(calls, Call("dataTick"))
    /\ dataPc' \in {"run46", "run43"}
    /\ UNCHANGED <<mapVars, probeVars, mainPc, stop, map, mapAlive>>

\* line 46: usleep(5000)
RunTickSleep ==
    /\ dataPc = "run46"
    /\ dataPc' = "run43"
    /\ UNCHANGED <<mapVars, probeVars, mainPc, stop, map, mapAlive, calls>>

\* line 48: map->dataFinalize(), after which run returns
RunFinalize ==
    /\ dataPc = "run48"
    /\ calls' = Append(calls, Call("dataFinalize"))
    /\ dataPc' = "done"
    /\ UNCHANGED <<mapVars, probeVars, mainPc, stop, map, mapAlive>>

-----------------------------------------------------------------------------
(* Construction and MapImpl::initializeNavigation *)

\* lines 407-408 of MapImpl::initializeNavigation
NormalizeRotationInit(r) ==
    << normalizeAngle(r[1]), normalizeAngle(r[2]), normalizeAngle(r[3]) >>

\* the map configurations a run starts from: navigation SRS type,
\* options.geographicNavMode, position.heightMode, position.orientation,
\* browserOptions.autorotate
InitConfigs == {
    <<"projected",  "Azimuthal", "fixed",    <<0, 270, 0>>,  0>>,
    <<"projected",  "Azimuthal", "floating", <<-270, 0, 0>>, 90>>,
    <<"geographic", "Azimuthal", "floating", <<0, 270, 0>>,  0>>,
    <<"geographic", "Free",      "fixed",    <<0, 270, 0>>,  0>>,
    <<"geographic", "Dynamic",   "fixed",    <<0, 270, 0>>,  0>>,
    <<"cartesian",  "Azimuthal", "fixed",    <<0, 270, 0>>,  0>>,
    <<"cartesian",  "Azimuthal", "floating", <<0, 270, 0>>,  0>> }

Init ==
    /\ \E c \in InitConfigs :
          /\ srsType = c[1]
          /\ geographicNavMode = c[2]
          /\ heightMode = c[3]
          /\ orientation = NormalizeRotationInit(c[4])
          /\ autoRotation = c[5]
    /\ position = <<0, 0, 100>>
    /\ verticalExtent = 400
    /\ targetPoint = position
    /\ changeRotation = <<0, 0, 0>>
    /\ targetViewExtent = verticalExtent
    /\ geographicMode = "Azimuthal"
    /\ type = "Quick"
    /\ panZQueue = <<>>
    /\ lastPanZShift = None
    /\ traverseRoot = None
    /\ travNodes = [n \in TreeNodes |-> NewTraverseNode]
    /\ lastOp = "initialize"
    /\ gestures = 0
    /\ NoProbe /\ HostRunning

Next ==
    \/ Tick
    \/ \E v \in PanValues : Pan(v)
    \/ \E v \in RotateValues : Rotate(v)
    \/ \E v \in ZoomValues : Zoom(v)
    \/ \E pt \in SetPointValues, t \in NavigationTypes : SetPoint(pt, t)
    \/ \E e \in SetRotationValues, t \in NavigationTypes : SetRotation(e, t)
    \/ \E e \in SetViewExtentValues, t \in NavigationTypes : SetViewExtent(e, t)
    \/ \E k \in ResetOffsets : ResetPositionAltitude(k)
    \/ ResetNavigationGeographicMode
    \/ CreateRoot
    \/ \E n \in TreeNodes, v \in {"Valid", "Invalid"} : LoadNode(n, v)

Spec == Init /\ [][Next]_vars

\* A tile tree of two levels under a camera that is close enough for the
\* heights to be sampled at lod 1: the root of the division and its childs
DeepNodes == {Root} \cup { children(Root)[i] : i \in 1..4 }

InitTree ==
    /\ srsType = "projected"
    /\ geographicNavMode = "Azimuthal"
    /\ heightMode = "fixed"
    /\ orientation = NormalizeRotationInit(<<0, 270, 0>>)
    /\ autoRotation = 0
    /\ position = <<0, 0, 100>>
    /\ verticalExtent = positionViewExtentMin
    /\ targetPoint = position
    /\ changeRotation = <<0, 0, 0>>
    /\ targetViewExtent = verticalExtent
    /\ geographicMode = "Azimuthal"
    /\ type = "Quick"
    /\ panZQueue = <<>>
    /\ lastPanZShift = None
    /\ traverseRoot = None
    /\ travNodes = [n \in DeepNodes |-> NewTraverseNode]
    /\ lastOp = "initialize"
    /\ gestures = 0
    /\ NoProbe /\ HostRunning

NextTree ==
    \/ Tick
    \/ \E v \in PanValues : Pan(v)
    \/ \E k \in ResetOffsets : ResetPositionAltitude(k)
    \/ CreateRoot
    \/ \E n \in DeepNodes, v \in {"Valid", "Invalid"} : LoadNode(n, v)

SpecTree == InitTree /\ [][NextTree]_vars

\* The host calls the tick every frame, the renderer creates the traversal
\* root and the loader determines every tile it was asked for; the gestures
\* are those that write the height queue.
NextLive ==
    \/ Tick
    \/ \E pt \in SetPointValues, t \in NavigationTypes : SetPoint(pt, t)
    \/ \E k \in ResetOffsets : ResetPositionAltitude(k)
    \/ CreateRoot
    \/ \E n \in TreeNodes, v \in {"Valid", "Invalid"} : LoadNode(n, v)

SpecLive ==
    /\ Init /\ [][NextLive]_vars
    /\ WF_vars(Tick)
    /\ WF_vars(CreateRoot)
    /\ WF_vars(\E n \in TreeNodes, v \in {"Valid", "Invalid"} : LoadNode(n, v))

\* the Position and the Navigation of the two-level tile tree, at rest
TreeAtRest ==
    /\ srsType = "projected"
    /\ geographicNavMode = "Azimuthal"
    /\ heightMode = "fixed"
    /\ orientation = NormalizeRotationInit(<<0, 270, 0>>)
    /\ autoRotation = 0
    /\ position = <<0, 0, 100>>
    /\ verticalExtent = positionViewExtentMin
    /\ targetPoint = position
    /\ changeRotation = <<0, 0, 0>>
    /\ targetViewExtent = verticalExtent
    /\ geographicMode = "Azimuthal"
    /\ type = "Quick"
    /\ panZQueue = <<>>
    /\ lastPanZShift = None
    /\ traverseRoot = None
    /\ travNodes = [n \in DeepNodes |-> NewTraverseNode]
    /\ lastOp = "initialize"
    /\ gestures = 0

\* A request made for one of the points and processed again and again while
\* the renderer and the loader build the two-level tile tree
InitProcess ==
    /\ TreeAtRest /\ HostRunning
    /\ request \in { NewHeightRequest(pt) : pt \in ProbePoints }
    /\ returned = "none"
    /\ cornerReturned = NotCalled
    /\ recalls = 0

NextProcess ==
    \/ Process
    \/ CreateRoot
    \/ \E n \in DeepNodes, v \in {"Valid", "Invalid"} : LoadNode(n, v)

SpecProcess == InitProcess /\ [][NextProcess]_vars

\* The block of main (main.cpp lines 42-51) and the data thread it starts
InitHost ==
    /\ TreeAtRest /\ NoProbe
    /\ mainPc = "main43" /\ dataPc = "none"
    /\ stop = FALSE /\ map = "null" /\ mapAlive = FALSE
    /\ calls = <<>>

NextHost ==
    \/ MainConstruct
    \/ DataThreadConstruct
    \/ MainWindowMap
    \/ MainAssignMap
    \/ MainRun
    \/ DataThreadStop
    \/ DataThreadJoin
    \/ MainDestroy
    \/ RunStart
    \/ RunWaitStop
    \/ RunWaitMap
    \/ RunWaitSleep
    \/ RunInitialize
    \/ RunLoopStop
    \/ RunTick
    \/ RunTickSleep
    \/ RunFinalize

SpecHost == InitHost /\ [][NextHost]_vars

-----------------------------------------------------------------------------
(* Properties *)

GestureOps == {"pan", "rotate", "zoom", "setPoint", "setRotation",
               "setViewExtent"}

\* C1: in every reachable state the height request queue holds at most 2
\* requests
C1_QueueAtMostTwo == Len(panZQueue) <= 2

C1_Witness == Len(panZQueue) = 2 /\ lastOp = "tick" /\ gestures > 0

\* C2: resetPositionAltitude(k) issues its request for the xy of the
\* position; when the tiles of the request load as Valid, no setPoint with
\* type Instant and no further resetPositionAltitude comes between, the
\* ticks lead to a state with targetPoint.z = terrain height + k
C2_ResetAltitudeResolves ==
    /\ [][ lastOp' = "resetPositionAltitude" =>
              /\ Len(panZQueue') = 1
              /\ Head(panZQueue').navPos = vec3to2(position) ]_vars
    /\ \A k \in ResetOffsets, g \in 1..(MaxGestures) :
          ( /\ lastOp = "resetPositionAltitude" /\ gestures = g
            /\ heightMode = "fixed"
            /\ Head(panZQueue).resetOffset = Some(k)
            /\ inside(NodeExtents(Root), vec3to2(position)) )
          ~> ( \/ /\ lastOp \in {"tick", "tickFatal"}
                  /\ targetPoint[3] = TerrainSurrogate + k
                  /\ lastPanZShift = Some(TerrainSurrogate)
               \/ \E n \in TreeNodes : travNodes[n].validity = "Invalid"
               \/ /\ gestures > g
                  /\ \/ lastOp = "setPoint" /\ type = "Instant"
                     \/ lastOp = "resetPositionAltitude" )

\* resetPositionAltitude(5) was the only gesture; the root tile loaded with
\* the terrain at 42 and a tick moved the target to 47
C2_Witness ==
    /\ lastOp = "tick" /\ gestures = 1 /\ heightMode = "fixed"
    /\ travNodes[Root].validity = "Valid"
    /\ targetPoint[3] = TerrainSurrogate + 5
    /\ lastPanZShift = Some(TerrainSurrogate)

\* C3: setPoint with type Instant leaves the height queue empty and
\* lastPanZShift unset; setPoint with another type leaves both as they were
C3_SetPointQueue ==
    [][ lastOp' = "setPoint" =>
          IF type' = "Instant"
          THEN panZQueue' = <<>> /\ lastPanZShift' = None
          ELSE panZQueue' = panZQueue /\ lastPanZShift' = lastPanZShift ]_vars

\* a setPoint(Instant) that was the only gesture and came after a tick (the
\* configuration starts floating), so the queue it emptied held requests
C3_Witness ==
    /\ lastOp = "setPoint" /\ type = "Instant" /\ gestures = 1
    /\ srsType = "geographic" /\ geographicNavMode = "Azimuthal"
    /\ heightMode = "fixed"
    /\ panZQueue = <<>> /\ lastPanZShift = None

\* C4: after every completed tick each orientation component is in
\* [0, 360) and the pitch is in [270, 350]
C4_OrientationNormalized ==
    lastOp = "tick" =>
        /\ \A i \in 1..3 : 0 <= orientation[i] /\ orientation[i] < 360
        /\ 270 <= orientation[2] /\ orientation[2] <= 350

\* a tick under auto rotation that turned the yaw and clamped the pitch of
\* the configured orientation <<90, 0, 0>>
C4_Witness ==
    /\ lastOp = "tick" /\ autoRotation = 90
    /\ orientation = <<270, 270, 0>>

\* C5: in a geographic navigation SRS the position committed by a tick has
\* its longitude in [-180, 180] and its latitude in [-90, 90]
C5_GeographicRange ==
    (lastOp = "tick" /\ srsType = "geographic") =>
        /\ -180 <= position[1] /\ position[1] <= 180
        /\ -90 <= position[2] /\ position[2] <= 90

\* a tick brought the position to the latitude limit although the gesture
\* had put the target beyond the pole
C5_Witness ==
    /\ lastOp = "tick" /\ srsType = "geographic"
    /\ geographicMode = "Azimuthal"
    /\ position[2] = navigationLatitudeThreshold

\* C6: after every completed tick targetViewExtent lies in
\* [positionViewExtentMin, positionViewExtentMax]
C6_ViewExtentLimited ==
    lastOp = "tick" =>
        /\ positionViewExtentMin <= targetViewExtent
        /\ targetViewExtent <= positionViewExtentMax

\* a tick after setViewExtent(5000): the target extent was cut to the
\* maximum and the position followed it there
C6_Witness ==
    /\ lastOp = "tick"
    /\ targetViewExtent = positionViewExtentMax
    /\ verticalExtent = positionViewExtentMax

\* C8: a gesture entry point leaves the position, the orientation, the
\* vertical extent and the height mode of the Position as they were; a step
\* that changes one of them is a tick
C8_GesturesKeepPosition ==
    [][ /\ lastOp' \in GestureOps => posVars' = posVars
        /\ posVars' # posVars => lastOp' \in {"tick", "tickFatal"} ]_vars

\* a pan has moved the target away while the position stayed where the
\* configuration put it
C8_Witness ==
    /\ lastOp = "pan"
    /\ position = <<0, 0, 100>>
    /\ targetPoint # position

\* C9: a tick entered with heightMode floating leaves the absolute request
\* of resetPositionAltitude(p.z) at the head of the queue, p.z being the
\* altitude of the position before the tick; after every completed tick
\* heightMode is fixed
C9_FloatingRegrounded ==
    [][ lastOp' = "tick" =>
          /\ heightMode' = "fixed"
          /\ heightMode = "floating" =>
                /\ panZQueue' # <<>>
                /\ Head(panZQueue').resetOffset = Some(position[3])
                /\ Head(panZQueue').navPos = vec3to2(position) ]_vars

C9_Witness ==
    /\ lastOp = "tick" /\ heightMode = "fixed"
    /\ Len(panZQueue) = 2
    /\ Head(panZQueue).resetOffset = Some(100)
    /\ targetPoint[3] = 0


\* the fields of Position and of NavigationState
navState == <<position, orientation, verticalExtent, heightMode,
              targetPoint, changeRotation, targetViewExtent, autoRotation,
              geographicMode, type, panZQueue, lastPanZShift>>

ZeroResiduals ==
    /\ position = targetPoint
    /\ changeRotation = <<0, 0, 0>>
    /\ autoRotation = 0
    /\ verticalExtent = targetViewExtent

\* C7 as stated: with navigationType Instant a tick started with all
\* residuals zero leaves all state unchanged
C7_InstantTickIdentity ==
    [][ (type = "Instant" /\ ZeroResiduals /\ lastOp' = "tick")
            => navState' = navState ]_vars

\* the state is in the form a completed tick leaves it in
TickNormalForm ==
    /\ heightMode = "fixed"
    /\ positionViewExtentMin <= targetViewExtent
    /\ targetViewExtent <= positionViewExtentMax
    /\ \A i \in 1..3 : 0 <= orientation[i] /\ orientation[i] < 360
    /\ 270 <= orientation[2] /\ orientation[2] <= 350
    /\ srsType = "projected" =>
          2 * position[1] >= -Period /\ 2 * position[1] < Period
    /\ srsType = "geographic" =>
          /\ -180 <= position[1] /\ position[1] < 180
          /\ IF geographicNavMode = "Dynamic"
             THEN Abs(targetPoint[2]) >= navigationLatitudeThreshold
                      => geographicMode = "Free"
             ELSE geographicMode = geographicNavMode
          /\ geographicMode = "Azimuthal" =>
                Abs(targetPoint[2]) <= navigationLatitudeThreshold

\* the head request of the queue resolves Valid in the tick that starts here
HeadResolvesValid ==
    checkPanZQueue(panZQueue, targetPoint, lastPanZShift, traverseRoot,
                   travNodes, verticalExtent).validity = "Valid"

\* C7 as amended: with navigationType Instant, a tick started with all
\* residuals zero and the state in tick normal form leaves the Position and
\* the targets of NavigationState unchanged, except that the altitude of
\* the target and of the position and lastPanZShift follow a head request
\* that resolves Valid; the height queue is not preserved
C7_InstantTickFrame ==
    [][ (type = "Instant" /\ ZeroResiduals /\ TickNormalForm
         /\ lastOp' = "tick")
            => /\ vec3to2(position') = vec3to2(position)
               /\ vec3to2(targetPoint') = vec3to2(targetPoint)
               /\ UNCHANGED <<orientation, verticalExtent, heightMode,
                              changeRotation, targetViewExtent, autoRotation,
                              geographicMode, type>>
               /\ ~HeadResolvesValid =>
                     UNCHANGED <<position, targetPoint, lastPanZShift>> ]_vars

\* setPoint(Instant) was the only gesture and emptied the queue; the first
\* tick after it reached the target, the second one started with all
\* residuals zero and left a second request in the queue
C7_Witness ==
    /\ lastOp = "tick" /\ type = "Instant" /\ gestures = 1
    /\ srsType = "projected"
    /\ position = <<-400, 0, 100>> /\ ZeroResiduals /\ TickNormalForm
    /\ Len(panZQueue) = 2

\* the pans of a geographic navigation SRS on which a jump is defined
GeographicPan(value) ==
    /\ srsType = "geographic"
    /\ Pan(value) /\ lastOp' = "pan"
    /\ PanJump(PanCandidate(value)) # NaN

\* C10 as stated: a geographic pan is rejected exactly when the jump from
\* the position to the candidate is > 150; in every other case, a jump of
\* exactly 150 included, targetPoint becomes the candidate
C10_PanRejectedAbove150 ==
    [][ \A v \in PanValues :
          GeographicPan(v) =>
              IF PanJump(PanCandidate(v))[1] > 150
              THEN targetPoint' = targetPoint
              ELSE targetPoint' = PanCandidate(v)[1] ]_vars

\* C10 as amended: a geographic pan makes targetPoint the candidate exactly
\* when the jump is < 150 (angular difference of the longitudes in
\* Azimuthal mode, arc distance in Free mode); in every other case, a jump
\* of exactly 150 and an undefined jump included, targetPoint is unchanged
C10_PanTakenBelow150 ==
    [][ \A v \in PanValues :
          (srsType = "geographic" /\ Pan(v) /\ lastOp' = "pan") =>
              IF /\ PanJump(PanCandidate(v)) # NaN
                 /\ PanJump(PanCandidate(v))[1] < 150
              THEN targetPoint' = PanCandidate(v)[1]
              ELSE targetPoint' = targetPoint ]_vars

\* a pan was dropped at a jump of exactly 150: the target set by
\* setPoint(<<150, 0, 0>>) is still there with its altitude untouched
C10_Witness ==
    /\ lastOp = "pan" /\ srsType = "geographic"
    /\ position = <<0, 0, 100>>
    /\ targetPoint = <<150, 0, 0>>

RequestKey(h) == << h.navPos, h.resetOffset >>

RequestKeys(queue) == [i \in 1..Len(queue) |-> RequestKey(queue[i])]

\* C12 as stated: with a cartesian navigation SRS the tick ends in the fatal
\* error, commits no position and no orientation and leaves no request in
\* the queue that was not there before the tick
C12_CartesianTickHalts ==
    [][ (srsType = "cartesian" /\ Tick) =>
            /\ lastOp' = "tickFatal"
            /\ UNCHANGED <<position, orientation>>
            /\ \A i \in 1..Len(panZQueue') :
                  \E j \in 1..Len(panZQueue) :
                      RequestKey(panZQueue'[i]) = RequestKey(panZQueue[j]) ]_vars

\* C12 as amended: with a cartesian navigation SRS the tick ends in the
\* fatal error and commits no position and no orientation; the enqueue step
\* is not reached, so a tick entered with heightMode fixed leaves no request
\* in the queue that was not there; a tick entered with heightMode floating
\* has set heightMode fixed and replaced the queue by the one absolute
\* request of resetPositionAltitude(p.z) before the error; the zoom limit
\* applied before the error stays in effect
C12_CartesianTickEffects ==
    [][ (srsType = "cartesian" /\ Tick) =>
            /\ lastOp' = "tickFatal"
            /\ UNCHANGED <<position, orientation, verticalExtent>>
            /\ heightMode' = "fixed"
            /\ targetViewExtent' = clamp(targetViewExtent,
                                         positionViewExtentMin,
                                         positionViewExtentMax)
            /\ IF heightMode = "floating"
               THEN RequestKeys(panZQueue')
                        = << <<vec3to2(position), Some(position[3])>> >>
               ELSE \A i \in 1..Len(panZQueue') :
                      \E j \in 1..Len(panZQueue) :
                          RequestKey(panZQueue'[i])
                              = RequestKey(panZQueue[j]) ]_vars

\* the first tick of the cartesian configuration that starts floating: the
\* error came after the re-grounding had put its request into the queue
C12_Witness ==
    /\ lastOp = "tickFatal" /\ srsType = "cartesian"
    /\ heightMode = "fixed" /\ position = <<0, 0, 100>>
    /\ Len(panZQueue) = 1
    /\ Head(panZQueue).resetOffset = Some(100)

\* the latitude of the target is beyond the threshold of the dynamic mode
TargetNearPole ==
    Abs(targetPoint[2]) * 100000 > navigationLatitudeThreshold * 100000 - 1

\* C14 as stated: configured Dynamic in a geographic SRS, after each tick
\* the resolved mode is Free when the target latitude was beyond the
\* threshold and Azimuthal otherwise, whatever it was before
C14_DynamicResolvedAfresh ==
    [][ (srsType = "geographic" /\ geographicNavMode = "Dynamic"
         /\ lastOp' = "tick") =>
            geographicMode' = IF TargetNearPole THEN "Free"
                              ELSE "Azimuthal" ]_vars

\* C14 as amended: configured Dynamic in a geographic SRS, after each tick
\* the resolved mode is Free when the target latitude was beyond the
\* threshold; otherwise it is the mode resolved before the tick: Free stays
\* Free until resetNavigationGeographicMode
C14_DynamicFreeSticks ==
    [][ (srsType = "geographic" /\ geographicNavMode = "Dynamic"
         /\ lastOp' = "tick") =>
            geographicMode' = IF TargetNearPole THEN "Free"
                              ELSE geographicMode ]_vars

\* a tick left the mode Free that rotate had set, with the target on the
\* equator
C14_Witness ==
    /\ lastOp = "tick" /\ geographicNavMode = "Dynamic"
    /\ srsType = "geographic"
    /\ geographicMode = "Free" /\ targetPoint[2] = 0
    /\ orientation[1] = 90

\* C15: the resolved geographicMode is never Dynamic, and the only fatal
\* tick is the one of a cartesian navigation SRS
C15_NeverDynamic ==
    /\ geographicMode \in {"Azimuthal", "Free"}
    /\ lastOp = "tickFatal" => srsType = "cartesian"
    /\ lastOp = "panFatal" => srsType = "cartesian"

\* configured Dynamic: rotate had set Free and
\* resetNavigationGeographicMode brought Azimuthal back
C15_Witness ==
    /\ lastOp = "resetNavigationGeographicMode"
    /\ geographicNavMode = "Dynamic" /\ gestures = 2
    /\ changeRotation = <<90, 0, 0>>
    /\ geographicMode = "Azimuthal"

\* C19: in a geographic SRS with resolved mode Azimuthal the latitude of
\* the target lies within the latitude threshold after every tick
C19_TargetLatitudeLimited ==
    (lastOp = "tick" /\ srsType = "geographic"
     /\ geographicMode = "Azimuthal") =>
        /\ -navigationLatitudeThreshold <= targetPoint[2]
        /\ targetPoint[2] <= navigationLatitudeThreshold

\* setPoint(<<0, 95, 0>>, Instant) was the only gesture; the tick cut the
\* latitude of the target to the threshold and moved the position there
C19_Witness ==
    /\ lastOp = "tick" /\ srsType = "geographic" /\ gestures = 1
    /\ geographicMode = "Azimuthal" /\ type = "Instant"
    /\ targetPoint[2] = navigationLatitudeThreshold
    /\ position[2] = navigationLatitudeThreshold

\* the period of the periodic coordinate of the navigation SRS
WrapPeriod == IF srsType = "geographic" THEN 360 ELSE Period

Between(a, x, b) == (a <= x /\ x <= b) \/ (b <= x /\ x <= a)

\* u can be the periodic coordinate the tick reached before the wrap: a
\* point on the way from the position to the target
OnTheWay(u) ==
    CASE srsType = "projected" ->
           Between(position[1], u, targetPoint[1])
      [] srsType = "geographic" /\ geographicMode' = "Azimuthal" ->
           Between(position[1], u,
                   position[1] + angularDiff(position[1], targetPoint[1]))
      [] OTHER -> -180 <= u /\ u <= 180

\* C20: a completed tick leaves the periodic coordinate of the position in
\* [-P/2, P/2) and has shifted the target by the same whole number of
\* periods as the position, so the target minus the position is what it
\* was before the wrap; the wrap changes no other coordinate of the target
C20_WrapShiftsTarget ==
    [][ lastOp' = "tick" =>
          /\ 2 * position'[1] >= -WrapPeriod
          /\ 2 * position'[1] < WrapPeriod
          /\ \E k \in -1..1 :
                /\ targetPoint'[1] = targetPoint[1] + k * WrapPeriod
                /\ OnTheWay(position'[1] - k * WrapPeriod)
          /\ targetPoint'[2] =
                 IF srsType = "geographic" /\ geographicMode' = "Azimuthal"
                 THEN clamp(targetPoint[2], -navigationLatitudeThreshold,
                            navigationLatitudeThreshold)
                 ELSE targetPoint[2] ]_vars

\* an Instant tick in the projected SRS of period 1000 reached x = 600; the
\* position was wrapped to -400 and the target went with it
C20_Witness ==
    /\ lastOp = "tick" /\ srsType = "projected" /\ type = "Instant"
    /\ position = <<-400, 600, 100>>
    /\ targetPoint = <<-400, 600, 100>>

\* the head request is for a point whose four corner tiles are the four
\* childs of the root, and it has no result yet
HeadInTree ==
    /\ panZQueue # <<>>
    /\ Head(panZQueue).result = None
    /\ \A i \in 1..2 :
          4 * Abs(Head(panZQueue).navPos[i]) < RootExtents[3] - RootExtents[1]

\* the traversal root is absent, or no tile is Invalid and one is still
\* Indeterminate
TilesPending ==
    \/ traverseRoot = None
    \/ /\ \A n \in DOMAIN travNodes : travNodes[n].validity # "Invalid"
       /\ \E n \in DOMAIN travNodes : travNodes[n].validity = "Indeterminate"

\* CornerRequest::process, from the root and from where the corner stands,
\* descends at most as many levels as the lod of the corner's tile
DescentsBounded ==
    \A i \in 1..Len(panZQueue) :
      \A j \in 1..Len(panZQueue[i].corners) :
        LET c == panZQueue[i].corners[j]
        IN  /\ CornerProcess(c, traverseRoot, travNodes, 0).descents
                   <= c.nodeInfo[1]
            /\ CornerProcess(NewCornerRequest(c.nodeInfo), traverseRoot,
                             travNodes, 0).descents <= c.nodeInfo[1]

\* in every state, tiles loaded or not, the processing of the head request
\* returns one of the three validities (none for the empty queue)
HeadProcessReturns ==
    checkPanZQueue(panZQueue, targetPoint, lastPanZShift, traverseRoot,
                   travNodes, verticalExtent).validity
        \in {"none", "Valid", "Invalid", "Indeterminate"}

HeadOutcome ==
    HeightProcess(Head(panZQueue), traverseRoot, travNodes, verticalExtent)

\* the queue after the tick popped its head and enqueued the request for
\* the position it committed
PoppedAndEnqueued ==
    RequestKeys(panZQueue') =
        RequestKeys(Tail(panZQueue)) \o << <<vec3to2(position'), NaN>> >>

HeadPopped ==
    /\ Len(panZQueue') >= Len(panZQueue) - 1
    /\ SubSeq(RequestKeys(panZQueue'), 1, Len(panZQueue) - 1)
           = RequestKeys(Tail(panZQueue))

\* the head request is still the head and still without a result
HeadKept ==
    /\ panZQueue' # <<>>
    /\ RequestKey(Head(panZQueue')) = RequestKey(Head(panZQueue))
    /\ Head(panZQueue').result = None

\* C17 as stated: a head request that resolves Invalid in a tick is popped,
\* one that resolves Indeterminate stays at the head; in both cases the
\* altitude of the target and lastPanZShift keep their values
C17_UnservedRequest ==
    [][ (lastOp' \in {"tick", "tickFatal"} /\ panZQueue # <<>>) =>
            /\ HeadOutcome.validity = "Invalid" =>
                  /\ HeadPopped
                  /\ targetPoint'[3] = targetPoint[3]
                  /\ lastPanZShift' = lastPanZShift
            /\ HeadOutcome.validity = "Indeterminate" =>
                  /\ HeadKept
                  /\ targetPoint'[3] = targetPoint[3]
                  /\ lastPanZShift' = lastPanZShift ]_vars

\* C17 as amended: the same for a tick entered with heightMode fixed; a
\* tick entered with heightMode floating goes on to
\* resetPositionAltitude(p.z): the altitude of the target is 0,
\* lastPanZShift is unset and the queue, its unserved head included, was
\* replaced by the absolute request, which is the head after the tick
C17_UnservedRequestFixed ==
    [][ (lastOp' \in {"tick", "tickFatal"} /\ panZQueue # <<>>
         /\ HeadOutcome.validity \in {"Invalid", "Indeterminate"}) =>
            IF heightMode = "fixed"
            THEN /\ IF HeadOutcome.validity = "Invalid"
                    THEN HeadPopped ELSE HeadKept
                 /\ targetPoint'[3] = targetPoint[3]
                 /\ lastPanZShift' = lastPanZShift
            ELSE /\ targetPoint'[3] = 0
                 /\ lastPanZShift' = None
                 /\ RequestKey(Head(panZQueue'))
                        = <<vec3to2(position), Some(position[3])>> ]_vars

\* resetPositionAltitude(5) was the only gesture; a tick found the root not
\* loaded, asked for it and kept the request at the head, the fresh request
\* behind it
C17_Witness ==
    /\ lastOp = "tick" /\ gestures = 1 /\ Len(panZQueue) = 2
    /\ Head(panZQueue).resetOffset = Some(5)
    /\ Head(panZQueue).result = None
    /\ traverseRoot # None
    /\ travNodes[Root].validity = "Indeterminate" /\ travNodes[Root].load

\* a request with a reset offset stands nowhere but at the head
AbsoluteOnlyAtHead ==
    \A i \in 2..Len(panZQueue) : panZQueue[i].resetOffset = NaN

\* C18: the enqueue step of the tick leaves the head of the queue alone:
\* of 2 entries only the tail is replaced. The head leaves the queue only
\* by resolving Valid or Invalid in a tick, which pops that one request and
\* moves the next one up, or when setPoint with type Instant or
\* resetPositionAltitude (also the one a floating tick calls) clears the
\* queue; a request with a reset offset is always the head
C18_HeadLeavesByResolving ==
    /\ []AbsoluteOnlyAtHead
    /\ [][ lastOp' = "tick" =>
              /\ RequestKey(panZQueue'[Len(panZQueue')])
                     = <<vec3to2(position'), NaN>>
              /\ Len(panZQueue') >= Len(panZQueue) - 1 ]_vars
    /\ [][ panZQueue # <<>> =>
              \/ /\ panZQueue' # <<>>
                 /\ RequestKey(Head(panZQueue')) = RequestKey(Head(panZQueue))
                 /\ Len(panZQueue') >= Len(panZQueue)
              \/ /\ lastOp' \in {"tick", "tickFatal"}
                 /\ HeadOutcome.validity \in {"Valid", "Invalid"}
                 /\ HeadPopped
              \/ /\ lastOp' \in {"tick", "tickFatal"}
                 /\ heightMode = "floating"
                 /\ Head(panZQueue').resetOffset = Some(position[3])
              \/ /\ lastOp' = "setPoint" /\ type' = "Instant"
                 /\ panZQueue' = <<>>
              \/ /\ lastOp' = "resetPositionAltitude"
                 /\ Len(panZQueue') = 1
                 /\ Head(panZQueue').resetOffset # NaN ]_vars

\* the request of resetPositionAltitude(5) has been waiting at the head
\* while the ticks moved the position to a new target and replaced the
\* tail by the request for the position they reached
C18_Witness ==
    /\ lastOp = "tick" /\ gestures = 2 /\ Len(panZQueue) = 2
    /\ type = "Quick"
    /\ Head(panZQueue).resetOffset = Some(5)
    /\ Head(panZQueue).navPos = <<0, 0>>
    /\ panZQueue[2].navPos = vec3to2(targetPoint)
    /\ vec3to2(targetPoint) # <<0, 0>>

\* the scenario of the periodic wrap: the projected SRS of period 1000, the
\* position at the origin and the target set to <<-400, 0, 100>>
WrapScenario ==
    /\ srsType = "projected" /\ type = "Quick"
    /\ position = <<0, 0, 100>>
    /\ targetPoint = <<-400, 0, 100>>

\* C21 as stated: from the scenario the ticks, no gesture coming between,
\* take the position through x = -500 by a wrap, after which the target is
\* <<600, 0, 100>>
C21_WrapsThrough ==
    \A g \in 0..MaxGestures :
        (WrapScenario /\ gestures = g)
            ~> (targetPoint = <<600, 0, 100>> \/ gestures > g)

\* C21 as amended: in the projected SRS, with the target at <<-400, 0>> and
\* the position on the segment from the origin to it, a tick moves the
\* position along the segment toward the target, strictly while it is not
\* there, never beyond it and never across x = -500; the periodicity shifts
\* nothing and the target stays at <<-400, 0>>
C21_DirectApproach ==
    [][ (lastOp' = "tick" /\ srsType = "projected"
         /\ vec3to2(targetPoint) = <<-400, 0>>
         /\ position[2] = 0 /\ -400 <= position[1] /\ position[1] <= 0) =>
            /\ -400 <= position'[1] /\ position'[1] <= position[1]
            /\ position[1] > -400 => position'[1] < position[1]
            /\ position'[2] = 0
            /\ vec3to2(targetPoint') = <<-400, 0>> ]_vars

\* setPoint(<<-400, 0, 100>>, Quick) was the only gesture; the ticks have
\* brought the position to the target, which is where the gesture put it
C21_Witness ==
    /\ lastOp = "tick" /\ srsType = "projected" /\ type = "Quick"
    /\ gestures = 1
    /\ position = <<-400, 0, 100>>
    /\ targetPoint = <<-400, 0, 100>>

\* C24: after every completed tick the height queue holds 1 or 2 requests,
\* the last of them the fresh request for the xy of the position the tick
\* committed.  The queue is empty only between the construction or a
\* setPoint with type Instant and the next completed tick: once a tick has
\* completed, nothing but setPoint with type Instant empties the queue (in
\* a cartesian navigation SRS no tick ever completes)
C24_QueueFedByTick ==
    /\ [](lastOp = "tick" =>
            /\ Len(panZQueue) \in {1, 2}
            /\ RequestKey(panZQueue[Len(panZQueue)])
                   = <<vec3to2(position), NaN>>)
    /\ [](srsType = "cartesian" => lastOp # "tick")
    /\ [][ (panZQueue # <<>> /\ panZQueue' = <<>>) =>
              \/ lastOp' = "setPoint" /\ type' = "Instant"
              \/ srsType = "cartesian" ]_vars
    /\ [][ (panZQueue = <<>> /\ panZQueue' = <<>>) => lastOp' # "tick" ]_vars

\* the configuration starts floating, so its first tick left two requests;
\* setPoint(<<150, 0, 0>>, Instant) emptied the queue and the tick after it
\* left the one fresh request for the position it reached
C24_Witness ==
    /\ lastOp = "tick" /\ type = "Instant"
    /\ srsType = "geographic" /\ geographicNavMode = "Azimuthal"
    /\ traverseRoot = None
    /\ Len(panZQueue) = 1
    /\ Head(panZQueue).navPos = <<150, 0>>
    /\ Head(panZQueue).resetOffset = NaN

\* what the process of corner i of the request returns in this state
CornerIs(i) ==
    CornerProcess(request.corners[i], traverseRoot, travNodes, 0).validity

\* C22: HeightRequest::process over its four corners returns Invalid if a
\* corner is Invalid, also when a corner before it is Indeterminate, else
\* Indeterminate if a corner is Indeterminate, else Valid; the request has
\* a result exactly when the four corners are Valid, and the result lies
\* between the surrogates of the corners
C22_CornersCombined ==
    (lastOp = "process" /\ Len(request.corners) = 4) =>
        /\ returned =
               IF \E i \in 1..4 : CornerIs(i) = "Invalid" THEN "Invalid"
               ELSE IF \E i \in 1..4 : CornerIs(i) = "Indeterminate"
               THEN "Indeterminate"
               ELSE "Valid"
        /\ request.result # None <=> \A i \in 1..4 : CornerIs(i) = "Valid"
        /\ request.result # None =>
               /\ \A i \in 1..4 : request.corners[i].result # None
               /\ \E i \in 1..4, j \in 1..4 :
                     /\ request.corners[i].result[1] <= request.result[1]
                     /\ request.result[1] <= request.corners[j].result[1]

\* the first corner waits for its tile, the second one found its tile
\* Invalid: the call returned Invalid
C22_Witness ==
    /\ lastOp = "process" /\ Len(request.corners) = 4
    /\ returned = "Invalid"
    /\ CornerIs(1) = "Indeterminate"
    /\ cornerReturned[1] = "Indeterminate"
    /\ cornerReturned[2] = "Invalid"

CallsInOrder ==
    /\ \A i \in 1..Len(calls) :
          /\ calls[i].method = "dataInitialize" <=> i = 1
          /\ calls[i].method = "dataFinalize" =>
                 i = Len(calls) /\ dataPc = "done"
    /\ dataPc = "done" =>
          /\ Len(calls) >= 2
          /\ calls[Len(calls)].method = "dataFinalize"
    /\ dataPc \in {"none", "run36", "run38", "run38map", "run39", "run41"}
          => calls = <<>>

\* C25: in every interleaving of main with the data thread, every call of
\* the data thread goes through a map pointer that is not null to the
\* MapFoundation while it is constructed, in the order dataInitialize,
\* dataTick any number of times, dataFinalize; ~DataThread has returned
\* only when the data thread is done, and the MapFoundation is destroyed
\* only after that
C25_DataThreadLifecycle ==
    /\ \A i \in 1..Len(calls) : calls[i].on = "map" /\ calls[i].alive
    /\ dataPc # "crashed"
    /\ CallsInOrder
    /\ mainPc \in {"main51", "main53"} => dataPc = "done"
    /\ (mainPc # "main43" /\ ~mapAlive) =>
          mainPc = "main53" /\ dataPc = "done"

\* main has left its block: the data thread made its three kinds of calls
\* and was joined before the map was destroyed
C25_Witness ==
    /\ mainPc = "main53" /\ dataPc = "done" /\ ~mapAlive /\ stop
    /\ Len(calls) = 3
    /\ calls[2].method = "dataTick"

====
